---- MODULE Spec2Model ----
(***************************************************************************)
(* Guard-X backend: the Socket.IO session/room router (socket_server.py),  *)
(* the throttled frame pipeline (camera_stream.py), the deployment         *)
(* manager (deploy_manager.py) and the websocket broadcast loop            *)
(* (camera_detection.py), as state machines.                               *)
(*                                                                         *)
(* Scheduling: every handler is an asyncio task.  A task runs without      *)
(* interruption up to an await that can really yield.  sio.emit and        *)
(* websocket.send_text can yield (network sends); a contended              *)
(* `async with ai_semaphore` yields until a slot is granted.  The          *)
(* coroutines of ai_engine.py contain no await at all and                  *)
(* sio.enter_room of the in-memory manager (the server is built without a  *)
(* client_manager) returns without yielding, so they run inside the step   *)
(* that calls them.                                                        *)
(***************************************************************************)
EXTENDS Integers, Sequences, FiniteSets, TLC

\* ------------------------------------------------------------------ bounds
\* Frames processed by the socket server in one behaviour of Spec.
MaxFrames == 2
\* Handlers queued behind a full semaphore in one behaviour of SpecSem.
MaxWaiters == 2
\* Frames processed in one behaviour of SpecSem (a burst above the capacity).
MaxBurst == 34
\* Frames processed in one behaviour of SpecSem on a single-slot semaphore.
MaxPair == 4
\* Frames of one producer stream in SpecThrottle (crosses the counter reset).
MaxStream == 1012
\* deploy_start handlers suspended between their two emits at one time.
MaxPending == 1
\* Entries of deployment_history in one behaviour of SpecDeploy.
MaxHistory == 3
\* Frames recorded on one live deployment record in SpecDeploy.
MaxCount == 1
\* Readings of the clock in SpecDeploy.
MaxClock == 1
\* Bounding boxes one detection returns.
MaxBoxes == 1
\* stream_detection tasks alive at one time besides the one that is followed.
MaxOtherLoops == 1

\* ------------------------------------------------------- program constants
SemCapacity == 32
DetectEvery == 5
ResetAbove == 1000

Sids == {"s1", "s2", "s3"}
Websockets == {"w1", "w2", "w3"}
NoSid == "none"

\* JWTs a client may present: none, one that fails verification, and the
\* payloads of an admin and of two operators (one carrying a camera_id).
Tokens == {"", "forged", "t_admin", "t_op1", "t_op2"}

None == [none |-> TRUE]

VARIABLES
  connected_cameras,        \* sid -> [username, camera_id, deployed]
  connected_admins,         \* set of admin sids
  deployed_cameras,         \* set of deployed camera sids
  admin_room, camera_room,  \* Socket.IO room membership
  used,                     \* sids the transport has handed out
  pending,                  \* deploy_start handlers suspended in their first emit
  emits,                    \* the sio.emit calls of the last step, in order
  last,                     \* the event the last step handled, with its outcome
  ai_semaphore,             \* free slots (asyncio.Semaphore._value)
  waiters,                  \* camera_frame handlers queued in acquire(), FIFO
  granted,                  \* queued handlers that were handed a slot, not yet resumed
  holders,                  \* handlers holding a slot, suspended in sio.emit
  capacity,                 \* the value the semaphore was constructed with
  camera_frame_counts,      \* camera_id -> count
  camera_detections_cache,  \* camera_id -> last detections
  stream_pos,               \* history: camera_id -> decoded frames seen so far
  stream_fresh,             \* history: camera_id -> what ai_engine.detect last returned
  stream_detected,          \* history: camera_id -> decoded frames seen at the last detect
  dm_deployed_cameras,      \* DeployManager.deployed_cameras: sid -> deployment info
  deployment_history,       \* DeployManager.deployment_history
  now,                      \* what datetime.now() returns
  frames_recorded,          \* history: sid -> frames recorded since its last DEPLOY
  tracked,                  \* history: place in the queue of one followed handler
  active_connections,       \* CameraManager.active_connections, a list
  ws_open,                  \* websockets whose peer is still there
  ws_handlers,              \* websockets whose websocket_camera task is running
  seen_ws,                  \* websockets accepted so far
  is_streaming, camera,     \* CameraManager.is_streaming, camera is not None
  loop,                     \* the stream_detection task: where it is in its pass
  other_loops,              \* stream_detection tasks alive besides that one
  pass_start,               \* history: active_connections when the pass began
  delivered                 \* history: websocket -> messages of this pass it got

sockVars == <<connected_cameras, connected_admins, deployed_cameras,
              admin_room, camera_room, used, pending>>
semVars == <<ai_semaphore, waiters, granted, holders, capacity, tracked>>
throttleVars == <<camera_frame_counts, camera_detections_cache, stream_pos, stream_fresh,
                  stream_detected>>
dmVars == <<dm_deployed_cameras, deployment_history, now, frames_recorded>>
streamVars == <<active_connections, ws_open, ws_handlers, seen_ws, is_streaming,
                camera, loop, other_loops, pass_start, delivered>>
\* What the Socket.IO handlers never touch.
offSocket == <<dmVars, streamVars>>
vars == <<sockVars, emits, last, semVars, throttleVars, dmVars, streamVars>>

\* ------------------------------------------------------------- helpers
RECURSIVE SumOver(_, _)
SumOver(f, S) ==
  IF S = {} THEN 0
  ELSE LET x == CHOOSE y \in S : TRUE IN f[x] + SumOver(f, S \ {x})

Put(f, k, v) == [x \in (DOMAIN f) \cup {k} |-> IF x = k THEN v ELSE f[x]]
Drop(f, k) == [x \in (DOMAIN f) \ {k} |-> f[x]]

\* ------------------------------------------------------------ connect
\* The tokens signed with SECRET_KEY: the ones jwt.decode accepts.
SignedTokens == {"t_admin", "t_op1", "t_op2"}

verify_token_unverified(token) ==
  CASE token = "t_admin" -> [sub |-> "admin1", role |-> "ADMIN"]
    [] token = "t_op1" -> [sub |-> "op1", role |-> "OPERATOR"]
    [] token = "t_op2" -> [sub |-> "op2", camera_id |-> "camA"]
    [] token = "forged" -> [sub |-> "mallory", role |-> "ADMIN"]
    [] OTHER -> None

\* jwt.decode: the payload, or None when verification fails.
verify_token(token) ==
  CASE token = "t_admin" -> [sub |-> "admin1", role |-> "ADMIN"]
    [] token = "t_op1" -> [sub |-> "op1", role |-> "OPERATOR"]
    [] token = "t_op2" -> [sub |-> "op2", camera_id |-> "camA"]
    [] OTHER -> None

TokenRole(user_data) ==
  IF "role" \in DOMAIN user_data THEN user_data.role ELSE "OPERATOR"

TokenCameraId(user_data) ==
  IF "camera_id" \in DOMAIN user_data THEN user_data.camera_id ELSE user_data.sub

CameraIds == {"op1", "camA"}

camera_list_deployed_only ==
  {[sid |-> c, username |-> connected_cameras[c].username,
    camera_id |-> connected_cameras[c].camera_id,
    deployed |-> TRUE] : c \in deployed_cameras \cap DOMAIN connected_cameras}

camera_list_all_idle ==
  {[sid |-> c, username |-> connected_cameras[c].username,
    camera_id |-> connected_cameras[c].camera_id,
    deployed |-> FALSE] : c \in DOMAIN connected_cameras}

\* Lines 103-111: one entry per registered camera, with its flag.
camera_list ==
  {[sid |-> c, username |-> connected_cameras[c].username,
    camera_id |-> connected_cameras[c].camera_id,
    deployed |-> connected_cameras[c].deployed] : c \in DOMAIN connected_cameras}

\* The connect handler, whatever the sid it is called with.
connect_handler(sid, token) ==
  /\ UNCHANGED offSocket
  /\ LET user_data == verify_token(token) IN
     IF token = "" \/ user_data = None
     THEN /\ last' = [op |-> "connect", ret |-> FALSE, token |-> token]
          /\ emits' = <<>>
          /\ UNCHANGED sockVars
     ELSE /\ used' = used \cup {sid}
          /\ last' = [op |-> "connect", ret |-> TRUE, sid |-> sid, token |-> token]
          /\ IF TokenRole(user_data) = "ADMIN"
             THEN /\ admin_room' = admin_room \cup {sid}
                  /\ connected_admins' = connected_admins \cup {sid}
                  /\ emits' = <<[event |-> "camera:list", room |-> sid,
                                 cameras |-> camera_list]>>
                  /\ UNCHANGED <<connected_cameras, camera_room>>
             ELSE /\ connected_cameras' =
                       Put(connected_cameras, sid,
                           [username |-> user_data.sub,
                            camera_id |-> TokenCameraId(user_data),
                            deployed |-> FALSE])
                  /\ camera_room' = camera_room \cup {sid}
                  /\ emits' = <<[event |-> "camera:connected", room |-> "admin_room",
                                 sid |-> sid, camera_id |-> TokenCameraId(user_data)]>>
                  /\ UNCHANGED <<connected_admins, admin_room>>
          /\ UNCHANGED <<deployed_cameras, pending>>
  /\ UNCHANGED <<semVars, throttleVars>>

\* Sessions the transport can deliver events from.
Connected == connected_admins \cup DOMAIN connected_cameras

\* A connection made by the Socket.IO server, which gives every connection
\* a sid of its own.
connect(sid, token) ==
  /\ sid \notin used
  /\ connect_handler(sid, token)

\* The handler called for the sid of a registered camera (no guard of the
\* handler keeps a caller from it; the Socket.IO server never does it).
connect_registered(sid, token) ==
  /\ sid \in DOMAIN connected_cameras
  /\ connect_handler(sid, token)

\* --------------------------------------------------------- disconnect
DeployedAfterDisconnectKept(sid) == deployed_cameras

\* Lines 149-150: a camera that goes away is no longer deployed.
DeployedAfterDisconnect(sid) == deployed_cameras \ {sid}

CameraDisconnectNoticeToAll(sid) ==
  <<[event |-> "camera:disconnect", room |-> "admin_room",
     sid |-> sid, camera_id |-> connected_cameras[sid].camera_id],
    [event |-> "camera:disconnect", room |-> "camera_room",
     sid |-> sid, camera_id |-> connected_cameras[sid].camera_id]>>

\* Lines 154-158: the admins are told which camera went away.
CameraDisconnectNotice(sid) ==
  <<[event |-> "camera:disconnect", room |-> "admin_room",
     sid |-> sid, camera_id |-> connected_cameras[sid].camera_id]>>

disconnect(sid) ==
  /\ UNCHANGED offSocket
  /\ sid \in Connected
  /\ connected_admins' = connected_admins \ {sid}
  /\ admin_room' = admin_room \ {sid}
  /\ camera_room' = camera_room \ {sid}
  /\ IF sid \in DOMAIN connected_cameras
     THEN /\ connected_cameras' = Drop(connected_cameras, sid)
          /\ deployed_cameras' = DeployedAfterDisconnect(sid)
          /\ emits' = CameraDisconnectNotice(sid)
     ELSE /\ emits' = <<>>
          /\ UNCHANGED <<connected_cameras, deployed_cameras>>
  /\ last' = [op |-> "disconnect", sid |-> sid,
              camera |-> (sid \in DOMAIN connected_cameras),
              was_deployed |-> (sid \in deployed_cameras)]
  /\ UNCHANGED <<used, pending, semVars, throttleVars>>

\* ------------------------------------------------------- deploy_start
IsAdminOrCamera(sid) == sid \in connected_admins \cup DOMAIN connected_cameras

\* `if sid not in connected_admins: return`, negated.
IsAdmin(sid) == sid \in connected_admins

DeployFailedToAdmins(sid) == <<[event |-> "deploy:failed", room |-> "admin_room"]>>

\* The answer to a deploy_start whose target is no connected camera.
DeployFailed(sid) == <<[event |-> "deploy:failed", room |-> sid]>>

deploy_start(sid, target_sid) ==
  /\ UNCHANGED offSocket
  /\ sid \in Connected
  /\ IF ~IsAdmin(sid)
     THEN /\ last' = [op |-> "deploy_start", outcome |-> "unauthorized",
                      sid |-> sid, target |-> target_sid]
          /\ emits' = <<>>
          /\ UNCHANGED sockVars
     ELSE IF target_sid \notin DOMAIN connected_cameras
     THEN /\ last' = [op |-> "deploy_start", outcome |-> "not_found",
                      sid |-> sid, target |-> target_sid]
          /\ emits' = DeployFailed(sid)
          /\ UNCHANGED sockVars
     ELSE /\ Cardinality(pending) < MaxPending
          \* pending is a set: one suspended handler per admin and target
          /\ \A p \in pending : ~(p.sid = sid /\ p.target_sid = target_sid)
          /\ connected_cameras' =
               [connected_cameras EXCEPT ![target_sid].deployed = TRUE]
          /\ deployed_cameras' = deployed_cameras \cup {target_sid}
          /\ emits' = <<[event |-> "deploy:assigned", room |-> target_sid,
                         camera_id |-> connected_cameras[target_sid].camera_id]>>
          /\ pending' = pending \cup
                {[sid |-> sid, target_sid |-> target_sid,
                  camera_id |-> connected_cameras[target_sid].camera_id]}
          /\ last' = [op |-> "deploy_start", sid |-> sid, target |-> target_sid,
                      outcome |-> "deployed",
                      was_deployed |-> (target_sid \in deployed_cameras)]
          /\ UNCHANGED <<connected_admins, admin_room, camera_room, used>>
  /\ UNCHANGED <<semVars, throttleVars>>

DeploySuccessToAdmins(p) ==
  <<[event |-> "deploy:success", room |-> "admin_room",
     camera_sid |-> p.target_sid, camera_id |-> p.camera_id]>>

\* The confirmation of a deployment, for the admin who asked for it.
DeploySuccess(p) ==
  <<[event |-> "deploy:success", room |-> p.sid,
     camera_sid |-> p.target_sid, camera_id |-> p.camera_id]>>

\* The handler resumes after `await sio.emit('deploy:assigned', ...)`.
deploy_start_confirm(p) ==
  /\ UNCHANGED offSocket
  /\ p \in pending
  /\ pending' = pending \ {p}
  /\ emits' = DeploySuccess(p)
  /\ last' = [op |-> "deploy_start_confirm"]
  /\ UNCHANGED <<connected_cameras, connected_admins, deployed_cameras,
                 admin_room, camera_room, used, semVars, throttleVars>>

deploy_stop_flag_only(sid, target_sid) ==
  /\ UNCHANGED offSocket
  /\ sid \in Connected
  /\ IF ~IsAdmin(sid)
     THEN /\ last' = [op |-> "deploy_stop", outcome |-> "unauthorized",
                      sid |-> sid, target |-> target_sid]
          /\ emits' = <<>>
          /\ UNCHANGED sockVars
     ELSE IF target_sid \notin DOMAIN connected_cameras
     THEN /\ last' = [op |-> "deploy_stop", outcome |-> "not_found",
                      sid |-> sid, target |-> target_sid]
          /\ emits' = <<>>
          /\ UNCHANGED sockVars
     ELSE /\ connected_cameras' =
               [connected_cameras EXCEPT ![target_sid].deployed = FALSE]
          /\ deployed_cameras' = deployed_cameras
          /\ emits' = <<[event |-> "deploy:stop", room |-> target_sid,
                         camera_id |-> connected_cameras[target_sid].camera_id]>>
          /\ last' = [op |-> "deploy_stop", sid |-> sid, target |-> target_sid,
                      outcome |-> "stopped",
                      was_deployed |-> (target_sid \in deployed_cameras)]
          /\ UNCHANGED <<connected_admins, admin_room, camera_room, used, pending>>
  /\ UNCHANGED <<semVars, throttleVars>>

\* -------------------------------------------------------- deploy_stop
deploy_stop(sid, target_sid) ==
  /\ UNCHANGED offSocket
  /\ sid \in Connected
  /\ IF ~IsAdmin(sid)
     THEN /\ last' = [op |-> "deploy_stop", outcome |-> "unauthorized",
                      sid |-> sid, target |-> target_sid]
          /\ emits' = <<>>
          /\ UNCHANGED sockVars
     ELSE IF target_sid \notin DOMAIN connected_cameras
     THEN /\ last' = [op |-> "deploy_stop", outcome |-> "not_found",
                      sid |-> sid, target |-> target_sid]
          /\ emits' = <<>>
          /\ UNCHANGED sockVars
     ELSE /\ connected_cameras' =
               [connected_cameras EXCEPT ![target_sid].deployed = FALSE]
          /\ deployed_cameras' = deployed_cameras \ {target_sid}
          /\ emits' = <<[event |-> "deploy:stop", room |-> target_sid,
                         camera_id |-> connected_cameras[target_sid].camera_id]>>
          /\ last' = [op |-> "deploy_stop", sid |-> sid, target |-> target_sid,
                      outcome |-> "stopped",
                      was_deployed |-> (target_sid \in deployed_cameras)]
          /\ UNCHANGED <<connected_admins, admin_room, camera_room, used, pending>>
  /\ UNCHANGED <<semVars, throttleVars>>

\* ------------------------------------------------ process_camera_frame
Frames == {"", "garbled", "jpeg"}

decode_frame_lenient(frame_base64) == [image |-> frame_base64]

\* base64 + cv2.imdecode: an image, or None for anything that is no JPEG.
decode_frame(frame_base64) ==
  IF frame_base64 = "jpeg" THEN [image |-> frame_base64] ELSE None

\* cv2.imencode + base64 of the annotated frame; None when the codec raises.
encode_frame(annotated_frame, encode_ok) ==
  IF encode_ok THEN [jpeg |-> annotated_frame.image] ELSE None

\* The cache entry a new camera_id starts with (no camera_id key).
InitialDetections == [boxes |-> 0, count |-> 0]

detect_gives_up(camera_id, boxes) ==
  IF boxes < 0 THEN None
  ELSE [camera_id |-> camera_id, boxes |-> boxes, count |-> boxes]

\* AIEngine.detect: the boxes found, tagged with the camera_id.  A negative
\* `boxes` stands for an inference call that raises: the exception is
\* caught in the loop over the models and nothing is added to the lists.
detect(camera_id, boxes) ==
  LET found == IF boxes < 0 THEN 0 ELSE boxes
  IN [camera_id |-> camera_id, boxes |-> found, count |-> found]

RunsDetectionOnFirst(count) == count % DetectEvery = 1

RunsDetection(count) == count % DetectEvery = 0

CountAfterNeverReset(count) == count

CountAfterEagerReset(count) == IF count > ResetAbove THEN 0 ELSE count

\* The counter after the frame: reset only on a detecting frame above the threshold.
CountAfter(count) ==
  IF RunsDetection(count) /\ count > ResetAbove THEN 0 ELSE count

CacheAfterNoStore(cache, camera_id, run, detections) == cache

CacheAfterKeepsFirst(cache, camera_id, run, detections) ==
  IF run /\ cache[camera_id] = InitialDetections
  THEN Put(cache, camera_id, detections) ELSE cache

\* The cache after the frame: a fresh result replaces the entry.
CacheAfter(cache, camera_id, run, detections) ==
  IF run THEN Put(cache, camera_id, detections) ELSE cache

\* process_camera_frame on the throttle state (counts, cache).  Returns the
\* new state, the result handed back to camera_frame, whether
\* ai_engine.detect ran and the detections drawn on the frame.
process_camera_frame(frame_base64, camera_id, camera_sid, boxes, encode_ok, counts, cache) ==
  LET frame == decode_frame(frame_base64) IN
  IF frame = None
  THEN [counts |-> counts, cache |-> cache, result |-> None,
        decoded |-> FALSE, detect_called |-> FALSE, detections |-> None]
  ELSE
    LET fresh == camera_id \notin DOMAIN counts
        counts1 == IF fresh THEN Put(counts, camera_id, 0) ELSE counts
        cache1 == IF fresh THEN Put(cache, camera_id, InitialDetections) ELSE cache
        count == counts1[camera_id] + 1
        run == RunsDetection(count)
        detections == IF run THEN detect(camera_id, boxes) ELSE cache1[camera_id]
        annotated == encode_frame(frame, encode_ok)
    IN [counts |-> Put(counts1, camera_id, CountAfter(count)),
        cache |-> CacheAfter(cache1, camera_id, run, detections),
        result |-> IF annotated = None THEN None
                   ELSE [camera_id |-> camera_id, camera_sid |-> camera_sid,
                         frame |-> annotated, detections |-> detections],
        decoded |-> TRUE, detect_called |-> run, detections |-> detections]

\* ------------------------------------------------------- ai_semaphore
LockedBelowZero == ai_semaphore < 0 \/ waiters # <<>> \/ granted # <<>>

\* asyncio.Semaphore.locked(): no free slot, or somebody is still queued
\* (a handler that was handed a slot stays in the queue until it resumes).
Locked == ai_semaphore = 0 \/ waiters # <<>> \/ granted # <<>>

WakeUpNextNewest(value, wq, gq) ==
  IF wq = <<>> THEN [value |-> value, waiters |-> wq, granted |-> gq]
  ELSE [value |-> value - 1, waiters |-> SubSeq(wq, 1, Len(wq) - 1),
        granted |-> Append(gq, wq[Len(wq)])]

WakeUpNextNobody(value, wq, gq) == [value |-> value, waiters |-> wq, granted |-> gq]

\* _wake_up_next: hand a free slot to the first queued handler.
WakeUpNext(value, wq, gq) ==
  IF wq = <<>> THEN [value |-> value, waiters |-> wq, granted |-> gq]
  ELSE [value |-> value - 1, waiters |-> Tail(wq), granted |-> Append(gq, Head(wq))]

ReleaseKeepsSlot(value, wq, gq) == [value |-> value, waiters |-> wq, granted |-> gq]

\* release(): free the slot, then wake the next queued handler.
Release(value, wq, gq) == WakeUpNext(value + 1, wq, gq)

Holding == holders + Len(granted)

TotalDecoded == SumOver(stream_pos, DOMAIN stream_pos)

Seen(camera_id) ==
  IF camera_id \in DOMAIN stream_pos THEN stream_pos[camera_id] ELSE 0

Detected(camera_id) ==
  IF camera_id \in DOMAIN stream_detected THEN stream_detected[camera_id] ELSE 0

\* What process_camera_frame returns to handler h.
Processed(h, boxes, encode_ok) ==
  process_camera_frame(h.frame, h.camera_id, h.sid, boxes, encode_ok,
                       camera_frame_counts, camera_detections_cache)

DetectionResultEchoed(sid, result) ==
  <<[event |-> "detection:result", room |-> "admin_room", result |-> result],
    [event |-> "detection:result", room |-> sid, result |-> result]>>

\* Lines 265-267: the result goes to the admins, not back to the camera.
DetectionResult(sid, result) ==
  <<[event |-> "detection:result", room |-> "admin_room", result |-> result]>>

\* Lines 262-271 of camera_frame for handler h: process the frame and
\* broadcast the result to the admins; `inside` handlers hold a slot.
RunFrame(op, h, boxes, encode_ok, inside) ==
  LET r == Processed(h, boxes, encode_ok) IN
  /\ camera_frame_counts' = r.counts
  /\ camera_detections_cache' = r.cache
  /\ stream_pos' = IF r.decoded THEN Put(stream_pos, h.camera_id, Seen(h.camera_id) + 1)
                   ELSE stream_pos
  /\ stream_fresh' = IF r.detect_called THEN Put(stream_fresh, h.camera_id, r.detections)
                     ELSE stream_fresh
  /\ stream_detected' = IF r.detect_called
                        THEN Put(stream_detected, h.camera_id, Seen(h.camera_id) + 1)
                        ELSE stream_detected
  /\ emits' = IF r.result = None THEN <<>> ELSE DetectionResult(h.sid, r.result)
  /\ last' = [op |-> op, sid |-> h.sid, camera_id |-> h.camera_id,
              outcome |-> IF r.result = None THEN "none" ELSE "broadcast",
              decoded |-> r.decoded, detect_called |-> r.detect_called,
              detections |-> r.detections, pos |-> Seen(h.camera_id),
              inside |-> inside, frame |-> h.frame, followed |-> h.followed,
              raised |-> (r.detect_called /\ boxes < 0),
              gap |-> IF r.detect_called
                      THEN Seen(h.camera_id) + 1 - Detected(h.camera_id) ELSE 0]

\* The body of `async with ai_semaphore` for handler h, entered with the
\* semaphore in state sem (slot of h already taken): the slot is kept while
\* the handler is suspended in sio.emit, released at once when there is
\* nothing to broadcast.
Section(op, h, boxes, encode_ok, sem) ==
  LET r == Processed(h, boxes, encode_ok)
      out == IF r.result = None THEN Release(sem.value, sem.waiters, sem.granted)
             ELSE sem
  IN /\ RunFrame(op, h, boxes, encode_ok, holders + Len(sem.granted) + 1)
     /\ holders' = IF r.result = None THEN holders ELSE holders + 1
     /\ ai_semaphore' = out.value
     /\ waiters' = out.waiters
     /\ granted' = out.granted

GateOpenWhenConnected(sid) == sid \in DOMAIN connected_cameras

\* Lines 240-246: only a registered, deployed camera passes.
GateOpen(sid) == sid \in DOMAIN connected_cameras /\ sid \in deployed_cameras

camera_frame(sid, frame_data, boxes, encode_ok) ==
  /\ UNCHANGED offSocket
  /\ sid \in Connected
  /\ UNCHANGED <<sockVars, capacity>>
  /\ IF ~GateOpen(sid) \/ frame_data = ""
     THEN /\ last' = [op |-> "camera_frame", sid |-> sid,
                      outcome |-> IF ~GateOpen(sid) THEN "rejected" ELSE "empty"]
          /\ emits' = <<>>
          /\ UNCHANGED <<ai_semaphore, waiters, granted, holders, tracked,
                         throttleVars>>
     ELSE LET h == [sid |-> sid, camera_id |-> connected_cameras[sid].camera_id,
                    frame |-> frame_data, followed |-> FALSE]
          IN IF Locked
             THEN /\ Len(waiters) < MaxWaiters
                  /\ last' = [op |-> "camera_frame", sid |-> sid, outcome |-> "queued"]
                  /\ emits' = <<>>
                  /\ \E follow \in BOOLEAN :
                       LET mark == follow /\ tracked = 0 IN
                       /\ waiters' = Append(waiters, [h EXCEPT !.followed = mark])
                       /\ tracked' = IF mark THEN Len(granted) + Len(waiters) + 1
                                     ELSE tracked
                  /\ UNCHANGED <<ai_semaphore, granted, holders, throttleVars>>
             ELSE /\ UNCHANGED tracked
                  /\ Section("camera_frame", h, boxes, encode_ok,
                             [value |-> ai_semaphore - 1, waiters |-> waiters,
                              granted |-> granted])

\* A queued handler that was handed a slot resumes inside acquire():
\* it leaves the queue, passes a spare slot on, and enters the section.
camera_frame_resume(boxes, encode_ok) ==
  /\ UNCHANGED offSocket
  /\ granted # <<>>
  /\ UNCHANGED <<sockVars, capacity>>
  /\ tracked' = IF tracked > 0 THEN tracked - 1 ELSE 0
  /\ LET h == Head(granted)
         sem == IF ai_semaphore > 0
                THEN WakeUpNext(ai_semaphore, waiters, Tail(granted))
                ELSE [value |-> ai_semaphore, waiters |-> waiters,
                      granted |-> Tail(granted)]
     IN Section("camera_frame_resume", h, boxes, encode_ok,
                [value |-> sem.value, waiters |-> sem.waiters,
                 granted |-> sem.granted])

\* `await sio.emit('detection:result', ...)` returns: the handler leaves
\* the `async with` block and releases its slot.
camera_frame_done ==
  /\ UNCHANGED offSocket
  /\ holders > 0
  /\ holders' = holders - 1
  /\ LET out == Release(ai_semaphore, waiters, granted)
     IN /\ ai_semaphore' = out.value
        /\ waiters' = out.waiters
        /\ granted' = out.granted
  /\ emits' = <<>>
  /\ last' = [op |-> "camera_frame_done"]
  /\ UNCHANGED <<sockVars, capacity, tracked, throttleVars>>

\* ------------------------------------------------- the socket server
EmptyMap == [x \in {} |-> 0]

SemInit(n) ==
  /\ capacity = n
  /\ ai_semaphore = n
  /\ waiters = <<>>
  /\ granted = <<>>
  /\ holders = 0
  /\ tracked = 0

DeployInit ==
  /\ dm_deployed_cameras = EmptyMap
  /\ deployment_history = <<>>
  /\ now = 0
  /\ frames_recorded = EmptyMap

StreamInit ==
  /\ active_connections = <<>>
  /\ ws_open = {}
  /\ ws_handlers = {}
  /\ seen_ws = {}
  /\ is_streaming = FALSE
  /\ camera = FALSE
  /\ loop = [pc |-> "none", idx |-> 0, disconnected |-> <<>>, running |-> FALSE]
  /\ other_loops = 0
  /\ pass_start = <<>>
  /\ delivered = [w \in Websockets |-> 0]

ThrottleInit ==
  /\ camera_frame_counts = EmptyMap
  /\ camera_detections_cache = EmptyMap
  /\ stream_pos = EmptyMap
  /\ stream_fresh = EmptyMap
  /\ stream_detected = EmptyMap

Init ==
  /\ connected_cameras = EmptyMap
  /\ connected_admins = {}
  /\ deployed_cameras = {}
  /\ admin_room = {}
  /\ camera_room = {}
  /\ used = {}
  /\ pending = {}
  /\ emits = <<>>
  /\ last = [op |-> "init"]
  /\ SemInit(SemCapacity)
  /\ ThrottleInit
  /\ DeployInit
  /\ StreamInit

Next ==
  \/ \E sid \in Sids, token \in Tokens : connect(sid, token)
  \/ \E sid \in Sids : disconnect(sid)
  \/ \E sid \in Sids, target_sid \in Sids \cup {NoSid} : deploy_start(sid, target_sid)
  \/ \E p \in pending : deploy_start_confirm(p)
  \/ \E sid \in Sids, target_sid \in Sids \cup {NoSid} : deploy_stop(sid, target_sid)
  \/ \E sid \in Sids, frame_data \in Frames, boxes \in 0..MaxBoxes, encode_ok \in BOOLEAN :
       TotalDecoded < MaxFrames /\ camera_frame(sid, frame_data, boxes, encode_ok)
  \/ camera_frame_done

Spec == Init /\ [][Next]_vars

\* The registry and deployment handlers alone: they neither read nor write
\* the semaphore and the throttle state, and camera_frame leaves the
\* registry alone, so the registry states reached are those of Spec.
NextControl ==
  \/ \E sid \in Sids, token \in Tokens : connect(sid, token)
  \/ \E sid \in Sids : disconnect(sid)
  \/ \E sid \in Sids, target_sid \in Sids \cup {NoSid} : deploy_start(sid, target_sid)
  \/ \E p \in pending : deploy_start_confirm(p)
  \/ \E sid \in Sids, target_sid \in Sids \cup {NoSid} : deploy_stop(sid, target_sid)

SpecControl == Init /\ [][NextControl]_vars

\* The registry handlers with a caller that registers a sid twice.
NextDuplicate ==
  \/ NextControl
  \/ \E sid \in Sids, token \in {"forged", "t_op1"} : connect_registered(sid, token)

SpecDuplicate == Init /\ [][NextDuplicate]_vars

\* ------------------------------------- the admission semaphore under load
\* Two producers and an admin, as connect and deploy_start leave them: s1
\* authenticated with t_op1, s2 with token2, both deployed.  The semaphore is
\* the one of the source (32 slots) or one built with a single slot; the
\* handlers are the same.  The 32-slot burst runs with both sessions of one
\* operator account (one camera_id), which keeps the counter space small.
SemConfigs ==
  {[slots |-> 1, token2 |-> "t_op1"], [slots |-> 1, token2 |-> "t_op2"],
   [slots |-> SemCapacity, token2 |-> "t_op1"]}

CameraEntry(token) ==
  [username |-> verify_token(token).sub,
   camera_id |-> TokenCameraId(verify_token(token)),
   deployed |-> TRUE]

InitSem ==
  /\ \E cfg \in SemConfigs :
       /\ connected_cameras =
            [s \in {"s1", "s2"} |->
               IF s = "s1" THEN CameraEntry("t_op1") ELSE CameraEntry(cfg.token2)]
       /\ SemInit(cfg.slots)
  /\ connected_admins = {"s3"}
  /\ deployed_cameras = {"s1", "s2"}
  /\ admin_room = {"s3"}
  /\ camera_room = {"s1", "s2"}
  /\ used = Sids
  /\ pending = {}
  /\ emits = <<>>
  /\ last = [op |-> "init"]
  /\ ThrottleInit
  /\ DeployInit
  /\ StreamInit

NextSem ==
  \/ \E sid \in Sids, frame_data \in Frames, encode_ok \in BOOLEAN :
       /\ TotalDecoded + Len(waiters) + Len(granted) <
            (IF capacity = 1 THEN MaxPair ELSE MaxBurst)
       /\ \E boxes \in {-1, MaxBoxes} : camera_frame(sid, frame_data, boxes, encode_ok)
  \/ \E boxes \in {-1, MaxBoxes}, encode_ok \in BOOLEAN :
       camera_frame_resume(boxes, encode_ok)
  \/ camera_frame_done

SpecSem == InitSem /\ [][NextSem]_vars

\* The same bursts with an inference that never raises.
NextQueue ==
  \/ \E sid \in Sids, frame_data \in Frames, encode_ok \in BOOLEAN :
       /\ TotalDecoded + Len(waiters) + Len(granted) <
            (IF capacity = 1 THEN MaxPair ELSE MaxBurst)
       /\ camera_frame(sid, frame_data, MaxBoxes, encode_ok)
  \/ \E encode_ok \in BOOLEAN : camera_frame_resume(MaxBoxes, encode_ok)
  \/ camera_frame_done

\* The event loop runs a handler that was handed a slot, and every
\* broadcast a slot holder is suspended in returns.
SpecSemFair ==
  /\ InitSem
  /\ [][NextQueue]_vars
  /\ WF_vars(\E encode_ok \in BOOLEAN : camera_frame_resume(MaxBoxes, encode_ok))
  /\ WF_vars(camera_frame_done)

\* --------------------------------------------- one producer's frame stream
\* A deployed producer whose camera_frame handlers run one after the other:
\* each takes a free slot, processes its frame, broadcasts and releases
\* before the next frame arrives.
stream_frame(sid, frame_data, boxes, encode_ok) ==
  /\ UNCHANGED offSocket
  /\ GateOpen(sid)
  /\ frame_data # ""
  /\ TotalDecoded < MaxStream
  /\ RunFrame("stream_frame",
              [sid |-> sid, camera_id |-> connected_cameras[sid].camera_id,
               frame |-> frame_data, followed |-> FALSE],
              boxes, encode_ok, 1)
  /\ UNCHANGED <<sockVars, semVars>>

InitThrottle ==
  /\ connected_cameras = [s \in {"s1"} |-> CameraEntry("t_op1")]
  /\ connected_admins = {"s3"}
  /\ deployed_cameras = {"s1"}
  /\ admin_room = {"s3"}
  /\ camera_room = {"s1"}
  /\ used = {"s1", "s3"}
  /\ pending = {}
  /\ emits = <<>>
  /\ last = [op |-> "init"]
  /\ SemInit(SemCapacity)
  /\ ThrottleInit
  /\ DeployInit
  /\ StreamInit

NextThrottle ==
  \E sid \in Sids, frame_data \in Frames, boxes \in 0..MaxBoxes, encode_ok \in BOOLEAN :
    stream_frame(sid, frame_data, boxes, encode_ok)

SpecThrottle == InitThrottle /\ [][NextThrottle]_vars

\* Bursts of frames while the admin stops cameras.
NextRevoke ==
  \/ NextQueue
  \/ \E sid \in connected_admins, target_sid \in {"s1", "s2"} : deploy_stop(sid, target_sid)

SpecRevoke == InitSem /\ [][NextRevoke]_vars

\* Bursts of frames while producers go away.
NextSlots ==
  \/ NextQueue
  \/ \E sid \in {"s1", "s2"} : disconnect(sid)

SpecSlots == InitSem /\ [][NextSlots]_vars

\* ------------------------------------------------------ DeployManager
\* No module of the repository calls the manager; its methods are driven
\* with arbitrary session ids and admin names, a session always under the
\* same camera_id.
DmSids == {"s1", "s2"}
Admins == {"admin1", "admin2"}
DmCameraId(camera_sid) == IF camera_sid = "s1" THEN "op1" ELSE "camA"

\* What the DeployManager methods never touch.
offDeploy == <<sockVars, semVars, throttleVars, streamVars>>

HasLiveRecord(camera_sid) == camera_sid \in DOMAIN dm_deployed_cameras

\* Calls of increment_frame_count that found the live record of camera_sid,
\* since the last deploy_camera that created one.
Recorded(camera_sid) ==
  IF camera_sid \in DOMAIN frames_recorded THEN frames_recorded[camera_sid] ELSE 0

\* {**deployment_info, 'action': 'DEPLOY'}: a copy of the record.
DeployEntry(info) ==
  [camera_sid |-> info.camera_sid, camera_id |-> info.camera_id,
   deployed_by |-> info.deployed_by, deployed_at |-> info.deployed_at,
   status |-> info.status, frame_count |-> info.frame_count, action |-> "DEPLOY"]

deploy_camera_overwrites(camera_sid, camera_id, admin_username) ==
  /\ UNCHANGED <<offDeploy, now>>
  /\ Len(deployment_history) < MaxHistory
  /\ emits' = <<>>
  /\ LET deployment_info ==
           [camera_sid |-> camera_sid, camera_id |-> camera_id,
            deployed_by |-> admin_username, deployed_at |-> now,
            status |-> "DEPLOYED", frame_count |-> 0]
     IN /\ frames_recorded' = Put(frames_recorded, camera_sid, 0)
        /\ dm_deployed_cameras' = Put(dm_deployed_cameras, camera_sid, deployment_info)
        /\ deployment_history' = Append(deployment_history, DeployEntry(deployment_info))
        /\ last' = [op |-> "deploy_camera", camera_sid |-> camera_sid,
                    actor |-> admin_username, ret |-> TRUE]

deploy_camera(camera_sid, camera_id, admin_username) ==
  /\ UNCHANGED <<offDeploy, now>>
  /\ emits' = <<>>
  /\ IF HasLiveRecord(camera_sid)
     THEN /\ last' = [op |-> "deploy_camera", camera_sid |-> camera_sid,
                      actor |-> admin_username, ret |-> FALSE]
          /\ UNCHANGED <<dm_deployed_cameras, deployment_history, frames_recorded>>
     ELSE LET deployment_info ==
                [camera_sid |-> camera_sid, camera_id |-> camera_id,
                 deployed_by |-> admin_username, deployed_at |-> now,
                 status |-> "DEPLOYED", frame_count |-> 0]
          IN /\ Len(deployment_history) < MaxHistory
             /\ frames_recorded' = Put(frames_recorded, camera_sid, 0)
             /\ dm_deployed_cameras' =
                  Put(dm_deployed_cameras, camera_sid, deployment_info)
             /\ deployment_history' =
                  Append(deployment_history, DeployEntry(deployment_info))
             /\ last' = [op |-> "deploy_camera", camera_sid |-> camera_sid,
                         actor |-> admin_username, ret |-> TRUE]

StopEntryWithoutCount(camera_sid, admin_username) ==
  [camera_sid |-> camera_sid,
   camera_id |-> dm_deployed_cameras[camera_sid].camera_id,
   stopped_by |-> admin_username, stopped_at |-> now, action |-> "STOP",
   frame_count |-> 0]

\* The entry stop_camera appends for the live record of camera_sid.
StopEntry(camera_sid, admin_username) ==
  [camera_sid |-> camera_sid,
   camera_id |-> dm_deployed_cameras[camera_sid].camera_id,
   stopped_by |-> admin_username, stopped_at |-> now, action |-> "STOP",
   frame_count |-> dm_deployed_cameras[camera_sid].frame_count]

\* The entry camera_disconnected appends for the live record of camera_sid.
DisconnectEntry(camera_sid) ==
  [camera_sid |-> camera_sid,
   camera_id |-> dm_deployed_cameras[camera_sid].camera_id,
   disconnected_at |-> now, action |-> "DISCONNECT",
   frame_count |-> dm_deployed_cameras[camera_sid].frame_count]

stop_camera_logs_every_call(camera_sid, admin_username) ==
  /\ UNCHANGED <<offDeploy, now, frames_recorded>>
  /\ Len(deployment_history) < MaxHistory
  /\ emits' = <<>>
  /\ deployment_history' =
       Append(deployment_history,
              [camera_sid |-> camera_sid, stopped_by |-> admin_username,
               stopped_at |-> now, action |-> "STOP"])
  /\ dm_deployed_cameras' = Drop(dm_deployed_cameras, camera_sid)
  /\ last' = [op |-> "stop_camera", camera_sid |-> camera_sid,
              actor |-> admin_username, ret |-> HasLiveRecord(camera_sid)]

stop_camera(camera_sid, admin_username) ==
  /\ UNCHANGED <<offDeploy, now, frames_recorded>>
  /\ emits' = <<>>
  /\ IF ~HasLiveRecord(camera_sid)
     THEN /\ last' = [op |-> "stop_camera", camera_sid |-> camera_sid,
                      actor |-> admin_username, ret |-> FALSE]
          /\ UNCHANGED <<dm_deployed_cameras, deployment_history>>
     ELSE /\ Len(deployment_history) < MaxHistory
          /\ deployment_history' =
               Append(deployment_history, StopEntry(camera_sid, admin_username))
          /\ dm_deployed_cameras' = Drop(dm_deployed_cameras, camera_sid)
          /\ last' = [op |-> "stop_camera", camera_sid |-> camera_sid,
                      actor |-> admin_username, ret |-> TRUE]

RECURSIVE CountInEntries(_, _)
\* The history with the DEPLOY entries of camera_sid given one more frame.
CountInEntries(history, camera_sid) ==
  IF history = <<>> THEN <<>>
  ELSE LET e == Head(history)
           e1 == IF e.action = "DEPLOY" /\ e.camera_sid = camera_sid
                 THEN [e EXCEPT !.frame_count = @ + 1] ELSE e
       IN <<e1>> \o CountInEntries(Tail(history), camera_sid)

increment_frame_count_shared_entry(camera_sid) ==
  /\ UNCHANGED <<offDeploy, now>>
  /\ emits' = <<>>
  /\ last' = [op |-> "increment_frame_count", camera_sid |-> camera_sid]
  /\ IF HasLiveRecord(camera_sid)
     THEN /\ dm_deployed_cameras[camera_sid].frame_count < MaxCount
          /\ dm_deployed_cameras' =
               [dm_deployed_cameras EXCEPT ![camera_sid].frame_count = @ + 1]
          /\ frames_recorded' = Put(frames_recorded, camera_sid, Recorded(camera_sid) + 1)
          /\ deployment_history' = CountInEntries(deployment_history, camera_sid)
     ELSE UNCHANGED <<dm_deployed_cameras, deployment_history, frames_recorded>>

increment_frame_count_creates(camera_sid) ==
  /\ UNCHANGED <<offDeploy, now, deployment_history>>
  /\ emits' = <<>>
  /\ last' = [op |-> "increment_frame_count", camera_sid |-> camera_sid]
  /\ IF HasLiveRecord(camera_sid)
     THEN /\ dm_deployed_cameras[camera_sid].frame_count < MaxCount
          /\ dm_deployed_cameras' =
               [dm_deployed_cameras EXCEPT ![camera_sid].frame_count = @ + 1]
          /\ frames_recorded' = Put(frames_recorded, camera_sid, Recorded(camera_sid) + 1)
     ELSE /\ UNCHANGED frames_recorded
          /\ dm_deployed_cameras' =
               Put(dm_deployed_cameras, camera_sid,
                [camera_sid |-> camera_sid, camera_id |-> DmCameraId(camera_sid),
                 deployed_by |-> "admin1", deployed_at |-> now,
                 status |-> "DEPLOYED", frame_count |-> 1])

increment_frame_count(camera_sid) ==
  /\ UNCHANGED <<offDeploy, now, deployment_history>>
  /\ emits' = <<>>
  /\ last' = [op |-> "increment_frame_count", camera_sid |-> camera_sid]
  /\ IF HasLiveRecord(camera_sid)
     THEN /\ dm_deployed_cameras[camera_sid].frame_count < MaxCount
          /\ dm_deployed_cameras' =
               [dm_deployed_cameras EXCEPT ![camera_sid].frame_count = @ + 1]
          /\ frames_recorded' = Put(frames_recorded, camera_sid, Recorded(camera_sid) + 1)
     ELSE UNCHANGED <<dm_deployed_cameras, frames_recorded>>

camera_disconnected_drops_silently(camera_sid) ==
  /\ UNCHANGED <<offDeploy, now, deployment_history, frames_recorded>>
  /\ emits' = <<>>
  /\ last' = [op |-> "camera_disconnected", camera_sid |-> camera_sid]
  /\ dm_deployed_cameras' = Drop(dm_deployed_cameras, camera_sid)

camera_disconnected(camera_sid) ==
  /\ UNCHANGED <<offDeploy, now, frames_recorded>>
  /\ emits' = <<>>
  /\ last' = [op |-> "camera_disconnected", camera_sid |-> camera_sid]
  /\ IF HasLiveRecord(camera_sid)
     THEN /\ Len(deployment_history) < MaxHistory
          /\ deployment_history' =
               Append(deployment_history, DisconnectEntry(camera_sid))
          /\ dm_deployed_cameras' = Drop(dm_deployed_cameras, camera_sid)
     ELSE UNCHANGED <<dm_deployed_cameras, deployment_history>>

\* Time passes between two calls.
tick ==
  /\ now < MaxClock
  /\ now' = now + 1
  /\ emits' = <<>>
  /\ last' = [op |-> "tick"]
  /\ UNCHANGED <<offDeploy, dm_deployed_cameras, deployment_history, frames_recorded>>

\* DeployManager.get_deployment_history: self.deployment_history[-limit:].
\* The slice starts at index -limit: for 0 < limit < len that is len - limit,
\* for limit >= len the start clamps to 0, and for limit = 0 the start is
\* -0 = 0, so the slice is the whole list.
get_deployment_history(limit) ==
  LET len   == Len(deployment_history)
      start == IF limit = 0 \/ limit >= len THEN 0 ELSE len - limit
  IN SubSeq(deployment_history, start + 1, len)

InitDeploy ==
  /\ connected_cameras = EmptyMap
  /\ connected_admins = {}
  /\ deployed_cameras = {}
  /\ admin_room = {}
  /\ camera_room = {}
  /\ used = {}
  /\ pending = {}
  /\ emits = <<>>
  /\ last = [op |-> "init"]
  /\ SemInit(SemCapacity)
  /\ ThrottleInit
  /\ DeployInit
  /\ StreamInit

NextDeploy ==
  \/ \E camera_sid \in DmSids, admin_username \in Admins :
       deploy_camera(camera_sid, DmCameraId(camera_sid), admin_username)
  \/ \E camera_sid \in DmSids, admin_username \in Admins :
       stop_camera(camera_sid, admin_username)
  \/ \E camera_sid \in DmSids : increment_frame_count(camera_sid)
  \/ \E camera_sid \in DmSids : camera_disconnected(camera_sid)
  \/ tick

SpecDeploy == InitDeploy /\ [][NextDeploy]_vars

\* ------------------------------------ CameraManager and /ws/camera
\* What the websocket endpoint and the stream loop never touch.
offStream == <<sockVars, semVars, throttleVars, dmVars>>

Range(seq) == {seq[i] : i \in DOMAIN seq}

RECURSIVE Without(_, _)
\* list.remove(x) for a list without duplicates; the list itself when x is absent.
Without(seq, x) ==
  IF seq = <<>> THEN <<>>
  ELSE IF Head(seq) = x THEN Tail(seq)
  ELSE <<Head(seq)>> \o Without(Tail(seq), x)

\* CameraManager.disconnect
manager_disconnect(conns, websocket) ==
  IF websocket \in Range(conns) THEN Without(conns, websocket) ELSE conns

RECURSIVE DisconnectAll(_, _)
\* `for conn in disconnected: self.disconnect(conn)`
DisconnectAll(conns, disconnected) ==
  IF disconnected = <<>> THEN conns
  ELSE DisconnectAll(manager_disconnect(conns, Head(disconnected)), Tail(disconnected))

\* websocket_camera up to its first receive: accept and register.
ws_connect(websocket) ==
  /\ ~loop.running
  /\ websocket \notin seen_ws
  /\ seen_ws' = seen_ws \cup {websocket}
  /\ ws_open' = ws_open \cup {websocket}
  /\ ws_handlers' = ws_handlers \cup {websocket}
  /\ active_connections' = Append(active_connections, websocket)
  /\ last' = [op |-> "ws_connect", websocket |-> websocket]
  /\ UNCHANGED <<offStream, emits, other_loops, is_streaming, camera, loop, pass_start, delivered>>

\* A "start_camera" message: on success a stream task is created, whether
\* or not one is running already.  The passes of one task are followed;
\* of a task created beside it only its existence is.
ws_start_camera(websocket, opened) ==
  /\ ~loop.running
  /\ websocket \in ws_handlers
  /\ websocket \in ws_open
  /\ camera' = TRUE          \* the VideoCapture object, opened or not
  /\ is_streaming' = IF opened THEN TRUE ELSE is_streaming
  /\ IF ~opened THEN UNCHANGED <<loop, other_loops>>
     ELSE IF loop.pc \in {"none", "ended"}
     THEN /\ loop' = [pc |-> "top", idx |-> 0, disconnected |-> <<>>,
                       running |-> FALSE]
          /\ UNCHANGED other_loops
     ELSE /\ other_loops < MaxOtherLoops
          /\ other_loops' = other_loops + 1
          /\ UNCHANGED loop
  /\ last' = [op |-> "ws_start_camera", websocket |-> websocket, opened |-> opened]
  /\ UNCHANGED <<offStream, emits, active_connections, ws_open, ws_handlers, seen_ws,
                 pass_start, delivered>>

\* A "stop_camera" message.
ws_stop_camera(websocket) ==
  /\ ~loop.running
  /\ websocket \in ws_handlers
  /\ websocket \in ws_open
  /\ is_streaming' = FALSE
  /\ camera' = FALSE
  /\ last' = [op |-> "ws_stop_camera", websocket |-> websocket]
  /\ UNCHANGED <<offStream, emits, other_loops, active_connections, ws_open, ws_handlers, seen_ws,
                 loop, pass_start, delivered>>

\* The peer of a websocket goes away.
ws_close(websocket) ==
  /\ ~loop.running
  /\ websocket \in ws_open
  /\ ws_open' = ws_open \ {websocket}
  /\ last' = [op |-> "ws_close", websocket |-> websocket]
  /\ UNCHANGED <<offStream, emits, other_loops, active_connections, ws_handlers, seen_ws,
                 is_streaming, camera, loop, pass_start, delivered>>

\* receive_text raises WebSocketDisconnect in the handler of a closed
\* websocket: it unregisters and, as the last one, stops the camera.
ws_disconnected(websocket) ==
  /\ ~loop.running
  /\ websocket \in ws_handlers
  /\ websocket \notin ws_open
  /\ ws_handlers' = ws_handlers \ {websocket}
  /\ active_connections' = manager_disconnect(active_connections, websocket)
  /\ is_streaming' = IF active_connections' = <<>> THEN FALSE ELSE is_streaming
  /\ camera' = IF active_connections' = <<>> THEN FALSE ELSE camera
  /\ last' = [op |-> "ws_disconnected", websocket |-> websocket]
  /\ UNCHANGED <<offStream, emits, other_loops, ws_open, seen_ws, loop, pass_start, delivered>>

\* stream_detection, lines 66-99: test the loop condition, read a frame,
\* build the message and start the pass over active_connections.
loop_frame(ret) ==
  /\ loop.pc = "top"
  /\ IF is_streaming /\ camera /\ ret
     THEN /\ loop' = [pc |-> "send", idx |-> 0, disconnected |-> <<>>,
                       running |-> TRUE]
          /\ pass_start' = active_connections
          /\ delivered' = [w \in Websockets |-> 0]
     ELSE /\ loop' = [loop EXCEPT !.pc = "ended", !.running = FALSE]
          /\ UNCHANGED <<pass_start, delivered>>
  /\ last' = [op |-> "loop_frame", streaming |-> (loop'.pc = "send")]
  /\ UNCHANGED <<offStream, emits, other_loops, active_connections, ws_open, ws_handlers, seen_ws,
                 is_streaming, camera>>

\* Lines 100-105: the list iterator yields the element at its index, if
\* the list still has one there; the send reaches an open websocket and
\* raises on a closed one.  The task is suspended in a send that goes
\* through (loop.running is FALSE: the other tasks may run) and carries on
\* at once after one that raises.
loop_send ==
  /\ loop.pc = "send"
  /\ loop.idx < Len(active_connections)
  /\ LET connection == active_connections[loop.idx + 1]
         sent == connection \in ws_open
     IN /\ loop' = [loop EXCEPT !.idx = @ + 1,
                                !.disconnected =
                                   IF sent THEN @ ELSE Append(@, connection),
                                !.running = ~sent]
        /\ delivered' = IF sent THEN [delivered EXCEPT ![connection] = @ + 1]
                        ELSE delivered
        /\ last' = [op |-> "loop_send", websocket |-> connection, sent |-> sent]
  /\ UNCHANGED <<offStream, emits, other_loops, active_connections, ws_open, ws_handlers, seen_ws,
                 is_streaming, camera, pass_start>>

\* Lines 108-111: the iterator is exhausted; unregister the websockets
\* whose send failed and sleep.
loop_pass_done ==
  /\ loop.pc = "send"
  /\ loop.idx >= Len(active_connections)
  /\ active_connections' = DisconnectAll(active_connections, loop.disconnected)
  /\ loop' = [pc |-> "top", idx |-> 0, disconnected |-> <<>>, running |-> FALSE]
  /\ last' = [op |-> "loop_pass_done", failed |-> Range(loop.disconnected)]
  /\ UNCHANGED <<offStream, emits, other_loops, ws_open, ws_handlers, seen_ws, is_streaming,
                 camera, pass_start, delivered>>

\* A stream task beside the followed one tests its loop condition and
\* reads a frame (lines 65-69); it ends when the test or the read fails.
other_loop_ends(ret) ==
  /\ ~loop.running
  /\ other_loops > 0
  /\ ~(is_streaming /\ camera /\ ret)
  /\ other_loops' = other_loops - 1
  /\ last' = [op |-> "other_loop_ends"]
  /\ UNCHANGED <<offStream, emits, active_connections, ws_open, ws_handlers, seen_ws,
                 is_streaming, camera, loop, pass_start, delivered>>

\* The stream_detection tasks that have not ended.
ActiveLoops == (IF loop.pc \in {"top", "send"} THEN 1 ELSE 0) + other_loops

InitStream ==
  /\ connected_cameras = EmptyMap
  /\ connected_admins = {}
  /\ deployed_cameras = {}
  /\ admin_room = {}
  /\ camera_room = {}
  /\ used = {}
  /\ pending = {}
  /\ emits = <<>>
  /\ last = [op |-> "init"]
  /\ SemInit(SemCapacity)
  /\ ThrottleInit
  /\ DeployInit
  /\ StreamInit

NextStream ==
  \/ \E websocket \in Websockets : ws_connect(websocket)
  \/ \E websocket \in Websockets, opened \in BOOLEAN : ws_start_camera(websocket, opened)
  \/ \E websocket \in Websockets : ws_stop_camera(websocket)
  \/ \E websocket \in Websockets : ws_close(websocket)
  \/ \E websocket \in Websockets : ws_disconnected(websocket)
  \/ \E ret \in BOOLEAN : loop_frame(ret)
  \/ loop_send
  \/ loop_pass_done
  \/ \E ret \in BOOLEAN : other_loop_ends(ret)

SpecStream == InitStream /\ [][NextStream]_vars

\* ================================================================ claims
HasEmit(event) == \E i \in DOMAIN emits : emits[i].event = event

RanPipeline ==
  /\ last.op \in {"camera_frame", "camera_frame_resume", "stream_frame"}
  /\ last.outcome \in {"none", "broadcast"}

\* C1: a camera_frame event from a sid that is not in connected_cameras or
\* not in deployed_cameras when it arrives ends at the gate: the throttle
\* state (counters, cache) is unchanged, process_camera_frame is not
\* invoked and the step emits no detection:result.
C1_GateStopsUnauthorizedFrames ==
  [][(/\ last'.op = "camera_frame"
      /\ \/ last'.sid \notin DOMAIN connected_cameras
         \/ last'.sid \notin deployed_cameras)
     => /\ last'.outcome = "rejected"
        /\ UNCHANGED throttleVars
        /\ \A i \in DOMAIN emits' : emits'[i].event # "detection:result"]_vars

\* A camera that streamed, was stopped and sends one more frame.
C1_Witness ==
  /\ last.op = "camera_frame"
  /\ last.outcome = "rejected"
  /\ last.sid \in DOMAIN connected_cameras
  /\ last.sid \notin deployed_cameras
  /\ Seen(connected_cameras[last.sid].camera_id) > 0

PrecedingFresh(camera_id) ==
  IF camera_id \in DOMAIN stream_fresh THEN stream_fresh[camera_id]
  ELSE InitialDetections

C4_SectionWithinCapacity ==
  /\ Holding <= capacity
  /\ RanPipeline => last.inside <= capacity
  /\ ai_semaphore >= 0

\* All 32 slots taken and a further frame of a burst queued behind them.
C4_Witness ==
  /\ capacity = SemCapacity
  /\ Holding = SemCapacity
  /\ waiters # <<>>
  /\ last.op = "camera_frame"
  /\ last.outcome = "queued"

LastEntry == deployment_history[Len(deployment_history)]

\* C5: deploy_camera for a camera_sid that already has a live record
\* returns False and leaves the record (deployed_by, deployed_at,
\* frame_count), the table of live records and the history as they were.
C5_RedeployRefused ==
  [][(/\ last'.op = "deploy_camera"
      /\ last'.camera_sid \in DOMAIN dm_deployed_cameras)
     => /\ last'.ret = FALSE
        /\ UNCHANGED <<dm_deployed_cameras, deployment_history>>]_vars

\* A second admin re-deploys, later, a camera that has already recorded frames.
C5_Witness ==
  /\ last.op = "deploy_camera"
  /\ last.ret = FALSE
  /\ HasLiveRecord(last.camera_sid)
  /\ dm_deployed_cameras[last.camera_sid].deployed_by # last.actor
  /\ dm_deployed_cameras[last.camera_sid].frame_count > 0
  /\ dm_deployed_cameras[last.camera_sid].deployed_at < now

\* C6: a deploy_start whose target is already deployed is rejected: the
\* admin gets deploy:failed and the step sends no deploy:assigned and
\* queues no deploy:success.
C6_RedeployRejected ==
  (/\ last.op = "deploy_start"
   /\ last.outcome = "deployed"
   /\ last.was_deployed)
  => /\ \E i \in DOMAIN emits :
          emits[i].event = "deploy:failed" /\ emits[i].room = last.sid
     /\ ~HasEmit("deploy:assigned")
     /\ \A p \in pending : p.target_sid # last.target

\* C7 as stated: every camera_disconnected call appends exactly one
\* DISCONNECT entry and leaves no live record, whatever the state of the
\* producer was.
C7_DisconnectAlwaysLogged ==
  [][last'.op = "camera_disconnected"
     => /\ Len(deployment_history') = Len(deployment_history) + 1
        /\ deployment_history'[Len(deployment_history')].action = "DISCONNECT"
        /\ last'.camera_sid \notin DOMAIN dm_deployed_cameras']_vars

\* C7 amended: disconnecting a DEPLOYED producer (one with a live record)
\* appends exactly one DISCONNECT entry, carrying the record's frame_count,
\* and removes the record; disconnecting an IDLE producer appends nothing
\* and changes nothing; either way no live record is left for it.
C7_DisconnectLogsLiveRecordOnly ==
  [][last'.op = "camera_disconnected"
     => /\ last'.camera_sid \notin DOMAIN dm_deployed_cameras'
        /\ IF last'.camera_sid \in DOMAIN dm_deployed_cameras
           THEN /\ Len(deployment_history') = Len(deployment_history) + 1
                /\ SubSeq(deployment_history', 1, Len(deployment_history))
                     = deployment_history
                /\ deployment_history'[Len(deployment_history')].action = "DISCONNECT"
                /\ deployment_history'[Len(deployment_history')].camera_sid
                     = last'.camera_sid
                /\ deployment_history'[Len(deployment_history')].frame_count
                     = dm_deployed_cameras[last'.camera_sid].frame_count
                /\ dm_deployed_cameras' = Drop(dm_deployed_cameras, last'.camera_sid)
           ELSE UNCHANGED <<dm_deployed_cameras, deployment_history>>]_vars

\* A deployed camera that recorded a frame has just disconnected.
C7_Witness ==
  /\ last.op = "camera_disconnected"
  /\ deployment_history # <<>>
  /\ LastEntry.action = "DISCONNECT"
  /\ LastEntry.camera_sid = last.camera_sid
  /\ LastEntry.frame_count > 0
  /\ ~HasLiveRecord(last.camera_sid)

\* C8: a broadcast pass in which a send failed unregisters the websockets
\* whose send failed once the pass is over, and every other recipient of
\* the pass that is still there got the message exactly once.
C8_FailedSendSparesTheOthers ==
  (last.op = "loop_pass_done" /\ last.failed # {})
  => /\ last.failed \cap Range(active_connections) = {}
     /\ \A websocket \in (Range(pass_start) \cap ws_open) \ last.failed :
          delivered[websocket] = 1

\* C9: stop_camera for a camera_sid without a live record returns False,
\* appends nothing to the history and leaves the live records as they were.
C9_StopWithoutRecordRefused ==
  [][(/\ last'.op = "stop_camera"
      /\ last'.camera_sid \notin DOMAIN dm_deployed_cameras)
     => /\ last'.ret = FALSE
        /\ UNCHANGED <<dm_deployed_cameras, deployment_history>>]_vars

\* A camera that was stopped is stopped a second time.
C9_Witness ==
  /\ last.op = "stop_camera"
  /\ last.ret = FALSE
  /\ deployment_history # <<>>
  /\ LastEntry.action = "STOP"
  /\ LastEntry.camera_sid = last.camera_sid

\* C10: an admin's deploy_stop for a target that is not deployed (unknown,
\* or connected and idle) is answered with a failure event to that admin,
\* and no deploy:stop is sent.
C10_StopOfIdleTargetFails ==
  (/\ last.op = "deploy_stop"
   /\ \/ last.outcome = "not_found"
      \/ last.outcome = "stopped" /\ ~last.was_deployed)
  => /\ \E i \in DOMAIN emits : emits[i].room = last.sid
     /\ ~HasEmit("deploy:stop")

\* C11: a deploy_stop that stops a deployed camera removes it from
\* deployed_cameras, sends deploy:stop to it and acknowledges to the admin
\* who issued it.  (deploy_stop has a single emit: the handler has no step
\* after this one.)
C11_StopAcknowledgedLikeStart ==
  (/\ last.op = "deploy_stop"
   /\ last.outcome = "stopped"
   /\ last.was_deployed)
  => /\ last.target \notin deployed_cameras
     /\ \E i \in DOMAIN emits :
          emits[i].event = "deploy:stop" /\ emits[i].room = last.target
     /\ \E i \in DOMAIN emits : emits[i].room = last.sid

\* C12: a deploy_start or deploy_stop from a session that is not in
\* connected_admins changes neither connected_cameras nor deployed_cameras,
\* queues nothing and emits nothing, whatever camera_sid it names.
C12_UnauthorizedCommandIgnored ==
  [][(/\ last'.op \in {"deploy_start", "deploy_stop"}
      /\ last'.sid \notin connected_admins)
     => /\ UNCHANGED <<connected_cameras, deployed_cameras, pending>>
        /\ emits' = <<>>]_vars

\* A connected, idle camera has just tried to deploy itself.
C12_Witness ==
  /\ last.op = "deploy_start"
  /\ last.sid = last.target
  /\ last.sid \in DOMAIN connected_cameras
  /\ last.sid \notin connected_admins
  /\ last.sid \notin deployed_cameras

\* C13: a deploy_start from an admin for a connected camera that is not
\* deployed puts it in deployed_cameras with its flag set and sends
\* deploy:assigned to that camera and nobody else; when the handler resumes
\* it sends deploy:success to the issuing admin and nobody else.
C13_DeployMarksThenNotifies ==
  [][/\ (/\ last'.op = "deploy_start"
         /\ last'.sid \in connected_admins
         /\ last'.target \in DOMAIN connected_cameras
         /\ last'.target \notin deployed_cameras)
        => /\ last'.target \in deployed_cameras'
           /\ connected_cameras'[last'.target].deployed
           /\ emits' = <<[event |-> "deploy:assigned", room |-> last'.target,
                          camera_id |-> connected_cameras[last'.target].camera_id]>>
           /\ \E p \in pending' \ pending :
                p.sid = last'.sid /\ p.target_sid = last'.target
     /\ last'.op = "deploy_start_confirm"
        => \E p \in pending :
             /\ pending' = pending \ {p}
             /\ emits' = <<[event |-> "deploy:success", room |-> p.sid,
                            camera_sid |-> p.target_sid,
                            camera_id |-> p.camera_id]>>]_vars

\* The admin who deployed an idle camera has just been sent deploy:success,
\* with a second admin connected.
C13_Witness ==
  /\ last.op = "deploy_start_confirm"
  /\ Cardinality(connected_admins) = 2
  /\ \E i \in DOMAIN emits :
       /\ emits[i].event = "deploy:success"
       /\ emits[i].room \in connected_admins
       /\ emits[i].camera_sid \in deployed_cameras

\* C14: a deploy_start from an admin whose camera_sid is no key of
\* connected_cameras (unknown, or the sid of an admin) sends deploy:failed
\* to that admin and nobody else and leaves connected_cameras and
\* deployed_cameras as they were.
C14_UnknownTargetFails ==
  [][(/\ last'.op = "deploy_start"
      /\ last'.sid \in connected_admins
      /\ last'.target \notin DOMAIN connected_cameras)
     => /\ Len(emits') = 1
        /\ emits'[1].event = "deploy:failed"
        /\ emits'[1].room = last'.sid
        /\ UNCHANGED <<connected_cameras, deployed_cameras, pending>>]_vars

\* An admin has just named the other admin as the camera to deploy.
C14_Witness ==
  /\ last.op = "deploy_start"
  /\ last.outcome = "not_found"
  /\ last.target \in connected_admins
  /\ last.target # last.sid
  /\ HasEmit("deploy:failed")

\* C15: a frame whose decode fails never takes a slot of ai_semaphore: it
\* is processed outside the `async with` section and never queues for it.
C15_DecodeFailureTakesNoSlot ==
  /\ (RanPipeline /\ last.frame = "garbled") => last.inside = 0
  /\ \A i \in DOMAIN waiters : waiters[i].frame # "garbled"
  /\ \A i \in DOMAIN granted : granted[i].frame # "garbled"

\* C16: a frame whose decode fails is dropped: detect is not invoked,
\* nothing is emitted, the handler ends without a result, and the counters
\* and the cache (the existence of the camera's entries included) are as
\* they were.
C16_DecodeFailureDropsFrame ==
  [][(/\ last'.op \in {"camera_frame", "camera_frame_resume"}
      /\ last'.outcome \in {"none", "broadcast"}
      /\ last'.frame = "garbled")
     => /\ UNCHANGED <<camera_frame_counts, camera_detections_cache>>
        /\ ~last'.detect_called
        /\ last'.outcome = "none"
        /\ emits' = <<>>]_vars

\* An undecodable frame arrives where the next decoded frame is the one
\* detection runs on.
C16_Witness ==
  /\ RanPipeline
  /\ last.frame = "garbled"
  /\ last.camera_id \in DOMAIN camera_frame_counts
  /\ camera_frame_counts[last.camera_id] = DetectEvery - 1

\* C17: a detection:result is emitted to admin_room and to nothing else:
\* not to a session, not to camera_room.
C17_ResultsGoToAdminsOnly ==
  \A i \in DOMAIN emits :
    emits[i].event = "detection:result" => emits[i].room = "admin_room"

\* A deployed camera's frame has just been broadcast.
C17_Witness ==
  /\ last.op = "camera_frame"
  /\ last.outcome = "broadcast"
  /\ last.sid \in camera_room
  /\ HasEmit("detection:result")

\* C18: every deployed session is a registered producer: deployed_cameras
\* is a subset of the keys of connected_cameras, so no deployment outlives
\* the disconnect of its producer.
C18_DeployedAreRegistered ==
  deployed_cameras \subseteq DOMAIN connected_cameras

\* A deployed producer has just disconnected while another one stays deployed.
C18_Witness ==
  /\ last.op = "disconnect"
  /\ last.was_deployed
  /\ last.sid \notin deployed_cameras
  /\ deployed_cameras # {}

\* C19: the disconnect of a producer removes it from connected_cameras and
\* from deployed_cameras and emits one camera:disconnect, to admin_room;
\* the disconnect of an admin removes it from connected_admins and emits no
\* camera:disconnect.
C19_DisconnectUnregisters ==
  [][last'.op = "disconnect"
     => /\ last'.sid \in DOMAIN connected_cameras
           => /\ last'.sid \notin DOMAIN connected_cameras'
              /\ last'.sid \notin deployed_cameras'
              /\ Len(emits') = 1
              /\ emits'[1].event = "camera:disconnect"
              /\ emits'[1].room = "admin_room"
              /\ emits'[1].sid = last'.sid
        /\ last'.sid \in connected_admins
           => /\ last'.sid \notin connected_admins'
              /\ ~\E i \in DOMAIN emits' : emits'[i].event = "camera:disconnect"]_vars

\* A deployed producer has just disconnected and the admins were told.
C19_Witness ==
  /\ last.op = "disconnect"
  /\ last.camera
  /\ last.was_deployed
  /\ HasEmit("camera:disconnect")
  /\ connected_admins # {}

\* C20: a connect without a token, or with a token that fails
\* verification, returns False and creates nothing: the registry tables,
\* deployed_cameras and the rooms are as they were and nothing is emitted.
C20_BadTokenRejected ==
  [][(last'.op = "connect" /\ last'.token \notin SignedTokens)
     => /\ ~last'.ret
        /\ UNCHANGED <<connected_cameras, connected_admins, deployed_cameras,
                       admin_room, camera_room>>
        /\ emits' = <<>>]_vars

\* A forged token has just been turned away by a server with an admin and
\* a deployed camera.
C20_Witness ==
  /\ last.op = "connect"
  /\ last.token = "forged"
  /\ ~last.ret
  /\ connected_admins # {}
  /\ deployed_cameras # {}

C22_CameraListIsTheRegistry ==
  (last.op = "connect" /\ last.ret /\ last.sid \in connected_admins)
  => /\ Len(emits) = 1
     /\ emits[1].event = "camera:list"
     /\ emits[1].room = last.sid
     /\ {e.sid : e \in emits[1].cameras} = DOMAIN connected_cameras
     /\ Cardinality(emits[1].cameras) = Cardinality(DOMAIN connected_cameras)
     /\ \A e \in emits[1].cameras :
          /\ e.deployed = (e.sid \in deployed_cameras)
          /\ e.camera_id = connected_cameras[e.sid].camera_id
          /\ e.username = connected_cameras[e.sid].username

\* A second admin connects while a camera is deployed.
C22_Witness ==
  /\ last.op = "connect"
  /\ last.ret
  /\ last.sid \in connected_admins
  /\ deployed_cameras # {}
  /\ \E e \in emits[1].cameras : e.deployed

C24_DetectionFailureIsEmptyResult ==
  (RanPipeline /\ last.raised)
  => /\ last.detections = [camera_id |-> last.camera_id, boxes |-> 0, count |-> 0]
     /\ camera_detections_cache[last.camera_id] = last.detections
     /\ last.outcome = "broadcast" <=> HasEmit("detection:result")
     /\ ai_semaphore + holders + Len(granted) = capacity

\* The inference raised while other handlers were inside the section, and
\* the frame was broadcast.
C24_Witness ==
  /\ RanPipeline
  /\ last.raised
  /\ last.outcome = "broadcast"
  /\ last.inside > 1

\* C25: a deployed producer whose frame has passed the gate and been
\* processed has a live deployment record whose frame_count counts it.
C25_AcceptedFramesAreCounted ==
  (last.op = "camera_frame" /\ last.outcome \in {"none", "broadcast"})
  => /\ last.sid \in DOMAIN dm_deployed_cameras
     /\ dm_deployed_cameras[last.sid].frame_count >= 1

\* C26: a fresh detection comes exactly DetectEvery decoded frames after
\* the one before it (after the start of the stream, for the first), and
\* fewer than DetectEvery frames have passed since the last one at any
\* time: the reset of the counter does not move the schedule.
C26_ResetKeepsTheSchedule ==
  /\ (RanPipeline /\ last.detect_called) => last.gap = DetectEvery
  /\ \A camera_id \in DOMAIN stream_pos :
       Seen(camera_id) - Detected(camera_id) < DetectEvery

\* The first detection after the counter was reset.
C26_Witness ==
  /\ RanPipeline
  /\ last.detect_called
  /\ Seen(last.camera_id) > ResetAbove + DetectEvery
  /\ camera_frame_counts[last.camera_id] = DetectEvery

\* C27: deployment_history only grows at its end: every operation leaves
\* the entries it had as they were (an increment of frame_count does not
\* reach the DEPLOY entry), and it gains one entry on a deploy or stop
\* that returns True and on the disconnect of a deployed camera, and none
\* on anything else.
C27_HistoryAppendOnly ==
  [][/\ Len(deployment_history') >= Len(deployment_history)
     /\ SubSeq(deployment_history', 1, Len(deployment_history)) = deployment_history
     /\ Len(deployment_history') - Len(deployment_history) =
          IF \/ last'.op \in {"deploy_camera", "stop_camera"} /\ last'.ret
             \/ /\ last'.op = "camera_disconnected"
                /\ last'.camera_sid \in DOMAIN dm_deployed_cameras
          THEN 1 ELSE 0]_vars

\* A frame is counted for a camera whose DEPLOY entry is in the history.
C27_Witness ==
  /\ last.op = "increment_frame_count"
  /\ last.camera_sid \in DOMAIN dm_deployed_cameras
  /\ dm_deployed_cameras[last.camera_sid].frame_count > 0
  /\ \E i \in DOMAIN deployment_history :
       /\ deployment_history[i].action = "DEPLOY"
       /\ deployment_history[i].camera_sid = last.camera_sid
       /\ deployment_history[i].frame_count = 0
  /\ Len(deployment_history) > 1

\* C30: increment_frame_count adds one to the frame_count of the live
\* record of camera_sid and touches nothing else; without a live record
\* (never deployed, stopped, disconnected) it changes nothing and creates
\* no record.  The entry a stop or disconnect appends carries the count
\* reached (C7, C27), so no increment is lost and none lands after a stop.
C30_IncrementOnlyLiveRecord ==
  [][last'.op = "increment_frame_count"
     => /\ deployment_history' = deployment_history
        /\ IF last'.camera_sid \in DOMAIN dm_deployed_cameras
           THEN dm_deployed_cameras' =
                  [dm_deployed_cameras EXCEPT
                     ![last'.camera_sid].frame_count = @ + 1]
           ELSE dm_deployed_cameras' = dm_deployed_cameras]_vars

\* A frame arrives for a camera that was stopped after it had frames counted.
C30_Witness ==
  /\ last.op = "increment_frame_count"
  /\ last.camera_sid \notin DOMAIN dm_deployed_cameras
  /\ deployment_history # <<>>
  /\ LastEntry.action = "STOP"
  /\ LastEntry.camera_sid = last.camera_sid
  /\ LastEntry.frame_count > 0

\* C28: what an enumeration hands out is a snapshot.  For the recipient
\* list of a broadcast pass: while the pass is going on, the list being
\* iterated is the list the pass started with, whatever websockets connect
\* or disconnect meanwhile.
C28_PassIteratesASnapshot ==
  loop.pc = "send" => active_connections = pass_start

\* C29: get_deployment_history(limit) returns at most limit records for
\* every limit >= 0, zero included, and they are the most recent ones in
\* their original order.
C29_HistoryLimitIsACap ==
  \A limit \in 0..MaxHistory :
    LET records == get_deployment_history(limit)
        len     == Len(deployment_history)
    IN /\ Len(records) <= limit
       /\ \A i \in 1..Len(records) :
            records[i] = deployment_history[len - Len(records) + i]

\* C31: a STOP or DISCONNECT entry records as frame_count the number of
\* frames recorded for the session since its DEPLOY, and a deploy after a
\* stop starts a live record with frame_count 0 and the new actor.
C31_EntryCountsTheSession ==
  [][LET n == Len(deployment_history')
         camera_sid == last'.camera_sid
     IN /\ (last'.op = "stop_camera" /\ last'.ret)
           => /\ deployment_history'[n].action = "STOP"
              /\ deployment_history'[n].camera_sid = camera_sid
              /\ deployment_history'[n].frame_count = Recorded(camera_sid)
        /\ (last'.op = "camera_disconnected" /\ n > Len(deployment_history))
           => /\ deployment_history'[n].action = "DISCONNECT"
              /\ deployment_history'[n].camera_sid = camera_sid
              /\ deployment_history'[n].frame_count = Recorded(camera_sid)
        /\ (last'.op = "deploy_camera" /\ last'.ret)
           => /\ dm_deployed_cameras'[camera_sid].frame_count = 0
              /\ dm_deployed_cameras'[camera_sid].deployed_by = last'.actor
              /\ frames_recorded'[camera_sid] = 0]_vars

\* A session deployed by one admin, stopped after a recorded frame, and
\* deployed again by the other admin.
C31_Witness ==
  /\ last.op = "deploy_camera" /\ last.ret
  /\ Len(deployment_history) = 3
  /\ deployment_history[1].action = "DEPLOY"
  /\ deployment_history[1].camera_sid = last.camera_sid
  /\ deployment_history[1].deployed_by # last.actor
  /\ deployment_history[2].action = "STOP"
  /\ deployment_history[2].camera_sid = last.camera_sid
  /\ deployment_history[2].frame_count = 1
  /\ dm_deployed_cameras[last.camera_sid].frame_count = 0

\* C32: the throttle counter's increment and its test are one step.  The
\* handlers of a burst run in the order they were admitted: one that finds
\* the section free runs when nobody is queued, and a queued one runs after
\* exactly the handlers that were ahead of it.  Each of them takes the next
\* position of its producer key, the counter never misses a frame, and the
\* decision for that position is made in the step that takes it.
C32_CounterStepIsAtomic ==
  [][/\ \A camera_id \in DOMAIN stream_pos' :
          /\ Seen(camera_id)' - Seen(camera_id) \in {0, 1}
          /\ camera_frame_counts'[camera_id]
               = Seen(camera_id)' % (ResetAbove + DetectEvery)
     /\ DOMAIN camera_frame_counts' = DOMAIN stream_pos'
     /\ (RanPipeline' /\ last'.decoded)
        => /\ last'.pos = Seen(last'.camera_id)
           /\ stream_pos'[last'.camera_id] = last'.pos + 1
           /\ last'.detect_called
                <=> (camera_frame_counts'[last'.camera_id] % DetectEvery = 0)
     /\ (last'.op = "camera_frame_resume") => (last'.followed <=> tracked = 1)
     /\ (last'.op = "camera_frame" /\ last'.outcome \in {"broadcast", "none"})
        => (waiters = <<>> /\ granted = <<>>)]_vars

\* A followed handler runs from the queue as a later frame of its producer
\* key, while another handler is still queued behind it.
C32_Witness ==
  /\ last.op = "camera_frame_resume"
  /\ last.followed
  /\ last.decoded
  /\ last.pos >= 1
  /\ Len(waiters) + Len(granted) >= 1

\* C33: the cache entry of a producer key is the initial value or the
\* result of the detection started last for that key, never the result of
\* an earlier one, and a frame without detection returns the cached value.
C33_CacheIsTheLatestDetection ==
  /\ \A camera_id \in DOMAIN camera_detections_cache :
       camera_detections_cache[camera_id] = PrecedingFresh(camera_id)
  /\ (RanPipeline /\ last.decoded /\ ~last.detect_called)
     => last.detections = camera_detections_cache[last.camera_id]

\* A frame after the second detection of a key came back with the cached
\* result of that detection, an empty one, while an earlier handler is
\* still suspended in its broadcast.
C33_Witness ==
  /\ RanPipeline
  /\ last.decoded
  /\ ~last.detect_called
  /\ last.pos = 2 * DetectEvery
  /\ last.detections = [camera_id |-> last.camera_id, boxes |-> 0, count |-> 0]
  /\ holders >= 1

\* C34: throttle state belongs to one producer session.  A frame handled
\* for one session leaves the frame counter and the cached result of every
\* other connected producer session as they were, whatever the sessions
\* authenticated as.
C34_ThrottleStatePerSession ==
  [][RanPipeline'
     => \A sid \in DOMAIN connected_cameras \ {last'.sid} :
          LET camera_id == connected_cameras[sid].camera_id
          IN /\ (camera_id \in DOMAIN camera_frame_counts)
                  = (camera_id \in DOMAIN camera_frame_counts')
             /\ camera_id \in DOMAIN camera_frame_counts
                => /\ camera_frame_counts'[camera_id] = camera_frame_counts[camera_id]
                   /\ camera_detections_cache'[camera_id]
                        = camera_detections_cache[camera_id]]_vars

\* C35: the throttle counter of a producer key stays in 0..1005 however
\* many frames arrive, and it goes back to 0 only from a count that is a
\* multiple of 5 (the frame that made it 1005).
C35_CounterStaysBounded ==
  [][\A camera_id \in DOMAIN camera_frame_counts' :
       LET before == IF camera_id \in DOMAIN camera_frame_counts
                     THEN camera_frame_counts[camera_id] ELSE 0
           after == camera_frame_counts'[camera_id]
       IN /\ after \in 0..(ResetAbove + DetectEvery)
          /\ after \in {before, before + 1, 0}
          /\ (after = 0 /\ after # before)
             => /\ (before + 1) % DetectEvery = 0
                /\ before + 1 > ResetAbove]_vars

\* The frame that took the counter to 1005 left it at 0.
C35_Witness ==
  /\ last.op = "stream_frame"
  /\ last.decoded
  /\ last.pos = ResetAbove + DetectEvery - 1
  /\ camera_frame_counts[last.camera_id] = 0

\* C36: once deploy_stop has taken a camera out of deployed_cameras, no
\* detection:result for it goes to the admins until it is deployed again:
\* a handler that broadcasts a result does so for a sid that is deployed
\* at that moment, also when its frame passed the gate before the stop and
\* was waiting for a slot of ai_semaphore.
C36_NoResultAfterStop ==
  (RanPipeline /\ last.outcome = "broadcast" /\ HasEmit("detection:result"))
  => last.sid \in deployed_cameras

\* C37: slots of ai_semaphore are conserved.  The free slots and the
\* handlers that own one (in the section, or handed a slot and about to
\* enter it) add up to the capacity in every state; a queued handler owns
\* none and waits only while no slot is free or an earlier one has still
\* to resume.  So each handler gave back exactly the slot it took, whether it
\* broadcast a result, got None, failed, or its producer disconnected
\* while the frame was in flight.
C37_SlotsConserved ==
  /\ ai_semaphore + Holding = capacity
  /\ ai_semaphore \in 0..capacity
  /\ waiters # <<>> => (ai_semaphore = 0 \/ granted # <<>>)

\* A producer disconnects while one of its frames holds the slot and
\* another one is queued for it.
C37_Witness ==
  /\ last.op = "disconnect"
  /\ last.camera
  /\ holders >= 1
  /\ waiters # <<>>
  /\ waiters[1].sid = last.sid
  /\ \A sid \in DOMAIN connected_cameras : sid # last.sid

\* C38: in every state of the socket server, the deployed flag of each
\* registered camera is true exactly when its sid is in deployed_cameras.
C38_FlagMatchesDeployedSet ==
  \A sid \in DOMAIN connected_cameras :
    connected_cameras[sid].deployed <=> sid \in deployed_cameras

\* One camera was deployed and stopped again while another one is deployed.
C38_Witness ==
  /\ last.op = "deploy_stop"
  /\ last.outcome = "stopped"
  /\ last.was_deployed
  /\ ~connected_cameras[last.target].deployed
  /\ \E sid \in DOMAIN connected_cameras :
       connected_cameras[sid].deployed /\ sid \in deployed_cameras

\* C39: no admin misses a producer.  Whenever an admin and a producer are
\* both registered after a step and were not both registered before it,
\* that step sent the producer to the admin: in the camera:list of the
\* admin that has just connected, or in a camera:connected to admin_room
\* with the admin in the room when the producer has just connected.
C39_NoAdminMissesAProducer ==
  [][\A admin \in connected_admins', producer \in DOMAIN connected_cameras' :
       \/ admin \in connected_admins /\ producer \in DOMAIN connected_cameras
       \/ /\ admin \notin connected_admins
          /\ \E i \in DOMAIN emits' :
               /\ emits'[i].event = "camera:list"
               /\ emits'[i].room = admin
               /\ \E e \in emits'[i].cameras : e.sid = producer
       \/ /\ admin \in connected_admins
          /\ admin \in admin_room
          /\ \E i \in DOMAIN emits' :
               /\ emits'[i].event = "camera:connected"
               /\ emits'[i].room = "admin_room"
               /\ emits'[i].sid = producer]_vars

\* A second producer connects while an admin is connected.
C39_Witness ==
  /\ last.op = "connect"
  /\ last.ret
  /\ last.sid \in DOMAIN connected_cameras
  /\ Cardinality(DOMAIN connected_cameras) = 2
  /\ connected_admins # {}
  /\ connected_admins \subseteq admin_room
  /\ HasEmit("camera:connected")

\* C40: at most one stream_detection loop of the CameraManager is active
\* at any time, whatever start_camera and stop_camera messages arrive:
\* while the camera is streaming, no two stream tasks are alive.
C40_SingleStreamLoop ==
  (is_streaming /\ camera) => ActiveLoops <= 1

====
